---- MODULE Spec2Model ----
(***************************************************************************)
(* vod-squirrel: a model of download() (src/main.rs), of concat_video      *)
(* (src/ffmpeg.rs) and of listen_for_offline() (src/eventsub.rs).          *)
(*                                                                         *)
(* download() enumerates the segments of the media playlist, spawns one    *)
(* tokio task per segment on a JoinSet, gates the transfers with a         *)
(* Semaphore of `parallelism` permits, waits with join_all() and hands     *)
(* segment_file_names to concat_video.  The tasks run concurrently with    *)
(* the spawning loop and with each other (multi-threaded runtime), so      *)
(* every await point of a task is one step of the model.                   *)
(*                                                                         *)
(* Spec is a run of download() with no EventSub session; SessionSpec is a  *)
(* run of the EventSub session and of the Monitor loop that reads it,      *)
(* with no download in progress; TruncateSpec is one call of               *)
(* truncate_string() (src/util.rs); MainSpec is a run of one command of    *)
(* main() with the download() it awaits and the access-token task          *)
(* (src/google.rs).  FairSpec, FairSessionSpec and FairMainSpec add the    *)
(* fairness of the runtime for the liveness properties.                    *)
(***************************************************************************)
EXTENDS Integers, Sequences, FiniteSets, TLC

\* Largest playlist the model enumerates (media.segments.len()).
MaxSegments == 3
\* Largest value of the --parallelism argument the model draws.
MaxParallelism == 2

VARIABLES
    parallelism,            \* Args.parallelism, the `parallelism` argument of download()
    segments,               \* media.segments: the playlist, a sequence of segment URIs
    ct,                     \* the CancellationToken: TRUE once cancel() was called
    dl,                     \* where download() is: "none", "loop", "join_all", "concat", "ok", "err", "panic"
    segment_file_names,     \* the Vec download() pushes every segment.uri to
    task,                   \* per segment index: where its spawned task is
    download_parallelism,   \* permits available in the Semaphore
    file,                   \* per segment index: what is on disk at temp_file_path
    status,                 \* per segment index: status class of the response its task holds
    attempts,               \* per segment index: how many GETs its task has sent
    completed,              \* task indices in the order the JoinSet saw them finish
    joined,                 \* how many finished tasks join_all() has taken
    concat_input,           \* the -i input concat_video built for ffmpeg; <<>> before it has
    in_flight_at_cancel     \* the tasks that held a permit when cancel() was called

vars == <<parallelism, segments, ct, dl, segment_file_names, task,
          download_parallelism, file, status, attempts, completed, joined,
          concat_input, in_flight_at_cancel>>

\* The state of listen_for_offline() (src/eventsub.rs) and of the Monitor
\* loop that reads its channel (src/main.rs).
VARIABLES
    broadcaster_ids,        \* the broadcaster_ids argument: the channels to subscribe to
    session_id,             \* the OnceCell: "unset", or the JSON value it was set to
    notify,                 \* the Notify: TRUE while it holds a permit nobody has taken
    registration,           \* where the registration task is: "none", "spawned", "notified", "posting", "done", "panicked"
    posts,                  \* the subscription POSTs sent, in order: [id, session_id]
    connection_url,         \* the receive loop's connection_url: "none" is Option::None
    receive,                \* where the receive task is: "none", "connect", "select", "notify_one", "send", "ended", "panicked"
    connected_to,           \* the URL the current websocket was opened to; "none" before the first
    connects,               \* how many websocket upgrades the loop has sent; the current connection's number
    stream,                 \* the frames the current websocket holds unread, oldest first
    frames_sent,            \* how many frames the server has sent over all connections
    channel,                \* the mpsc channel: the ids sent and not yet received
    monitor,                \* where main's Monitor loop is: "none", "recv", "processing", "gone"
    panic_message,          \* what the receive task panicked with; "none" while it has not
    text_messages,          \* how many text messages the current connection has handled
    assigned,               \* history: every successful session_id.set(): [connection, text_message, id]
    handled,                \* history: per handled frame, <<connection it was sent on, connection that handled it>>
    notified,               \* history: the ids of the notifications that reached tx.send(), in order
    delivered,              \* history: the ids that entered the channel, in order
    timeouts,               \* history: how many times the 40 s sleep won the select!
    sleep,                  \* the sleep(40 s) of the select! being polled: [state, armed_at]
    redirects               \* history: the reconnect_url of every session_reconnect obeyed, in order

session_vars == <<broadcaster_ids, session_id, notify, registration, posts,
                  connection_url, receive, connected_to, connects, stream,
                  frames_sent, channel, monitor, panic_message,
                  text_messages, assigned, handled, notified, delivered,
                  timeouts, sleep, redirects>>

\* One call of truncate_string() (src/util.rs).
VARIABLES
    string,                 \* the `string` argument: its characters, each as its UTF-8 width in bytes
    max_length,             \* the `max_length` argument
    overflow_checks,        \* the build: TRUE if usize arithmetic panics on overflow (debug), FALSE if it wraps (release)
    returned                \* how the call ended: [kind, cut]; kind is "none" before it has

util_vars == <<string, max_length, overflow_checks, returned>>

\* main() (src/main.rs) from `match args.command` on, and the task of
\* watch_access_token() (src/google.rs).
VARIABLES
    command,                \* args.command: "Download", "Archive", "Monitor"; "none" where main is not modelled
    main,                   \* where main is: "none", "start", "loop", "list", "download", "rename", "token", "archive", "returned", "panicked"
    access_token,           \* the value in the watch channel: "None" or "Some"
    watcher,                \* where the access-token task is: "none", "generate", "sleep", "ended", "panicked"
    received,               \* history: the uids receiver.recv() has returned, in order
    jobs,                   \* history: per call of download(), the uid it was called for (0 for the vod of the command line)
    returns,                \* history: per download() that returned Ok, whether ct was cancelled when it did
    admitted                \* history: the steps taken with the file of a download: [step, job]

main_vars == <<command, main, access_token, watcher, received, jobs, returns,
               admitted>>

all_vars == <<vars, session_vars, util_vars, main_vars>>

----------------------------------------------------------------------------
(* The playlist.                                                           *)

\* A segment URI as the playlist names it: the name is not the index, a
\* silenced chunk carries "-muted" (comment at main.rs:366).
SegmentUri(i) == IF i % 2 = 0 THEN <<i - 1, "-muted.ts">> ELSE <<i - 1, ".ts">>

\* media.segments of a playlist of n segments, in playlist order.
MediaSegments(n) == [i \in 1..n |-> SegmentUri(i)]

Indices == 1..Len(segments)

\* temp_download_dir.join(name)
JoinPath(dir, name) == <<dir, name>>

TempDownloadDir == "vod-squirrel-dir"

----------------------------------------------------------------------------
(* Task positions.                                                         *)

\* A task that holds a permit: between permit.acquire() and its end.
InFlight == {"sending", "streaming"}
\* A task that has not resolved its select! yet.
Unstarted == {"unspawned", "select"}
\* A task whose future returned (), at the select! or after the transfer.
Returned == {"done", "skipped"}
\* A task that is over, however it ended.
Terminal == {"done", "skipped", "panicked", "aborted"}

Holders == {i \in Indices : task[i] \in InFlight}

\* The Segment.state of the specification's data model, read off the task.
SegState(i) ==
    CASE task[i] \in InFlight -> "InFlight"
      [] task[i] = "done" -> "Done"
      [] task[i] = "panicked" -> "Failed"
      [] task[i] = "aborted" /\ attempts[i] > 0 -> "Failed"
      [] OTHER -> "Pending"

----------------------------------------------------------------------------
(* Initial state: download() has fetched the playlist, created the         *)
(* directory and built the Semaphore, the JoinSet and the empty Vec.       *)

Init ==
    /\ parallelism \in 0..MaxParallelism
    /\ \E n \in 0..MaxSegments : segments = MediaSegments(n)
    /\ ct = FALSE
    /\ dl = IF Len(segments) = 0 THEN "join_all" ELSE "loop"
    /\ segment_file_names = <<>>
    /\ task = [i \in Indices |-> "unspawned"]
    /\ download_parallelism = parallelism
    /\ file = [i \in Indices |-> "none"]
    /\ status = [i \in Indices |-> "none"]
    /\ attempts = [i \in Indices |-> 0]
    /\ completed = <<>>
    /\ joined = 0
    /\ concat_input = <<>>
    /\ in_flight_at_cancel = {}

----------------------------------------------------------------------------
(* The cancellation token.                                                 *)

\* Cancel as it would be if cancel() also aborted the transfers in flight
\* and removed their files.
CancelAbortsInFlight ==
    /\ ~ct
    /\ ct' = TRUE
    /\ in_flight_at_cancel' = Holders
    /\ task' = [i \in Indices |-> IF task[i] \in InFlight THEN "aborted"
                                                          ELSE task[i]]
    /\ file' = [i \in Indices |-> IF task[i] \in InFlight THEN "none"
                                                          ELSE file[i]]
    /\ status' = [i \in Indices |-> IF task[i] \in InFlight THEN "none"
                                                            ELSE status[i]]
    /\ download_parallelism' = download_parallelism + Cardinality(Holders)
    /\ UNCHANGED <<parallelism, segments, dl, segment_file_names, attempts,
                   completed, joined, concat_input>>

\* ct.cancel(), from the CTRL+C watcher or the access-token watcher.  The
\* tasks in flight are not touched: nothing after the select! looks at ct.
Cancel ==
    /\ ~ct
    /\ ct' = TRUE
    /\ in_flight_at_cancel' = Holders
    /\ UNCHANGED <<parallelism, segments, dl, segment_file_names, task,
                   download_parallelism, file, status, attempts, completed,
                   joined, concat_input>>

\* CancelAgain as it would be if a second cancel() reset the token.
CancelAgainResets ==
    /\ ct
    /\ ct' = FALSE
    /\ UNCHANGED <<parallelism, segments, dl, segment_file_names, task,
                   download_parallelism, file, status, attempts, completed,
                   joined, concat_input, in_flight_at_cancel>>

\* ct.cancel() on a token that is cancelled already: the other of the two
\* writers (the CTRL+C watcher, the access-token watcher) calls it too.
\* The token stays cancelled.
CancelAgain ==
    /\ ct
    /\ ct' = TRUE
    /\ UNCHANGED <<parallelism, segments, dl, segment_file_names, task,
                   download_parallelism, file, status, attempts, completed,
                   joined, concat_input, in_flight_at_cancel>>

----------------------------------------------------------------------------
(* Dropping the JoinSet aborts every task that has not finished; an        *)
(* aborted task's future is dropped, and with it the permit it holds.      *)

AbortedTasks == [i \in Indices |-> IF task[i] \in {"select"} \cup InFlight
                                   THEN "aborted" ELSE task[i]]

\* The responses the tasks hold once the unfinished ones are dropped.
StatusAfterAbort == [i \in Indices |-> IF task[i] \in InFlight
                                       THEN "none" ELSE status[i]]

PermitsAfterAbort == download_parallelism + Cardinality(Holders)

----------------------------------------------------------------------------
(* download(): the spawning loop.                                          *)

\* One iteration: push segment.uri, build the URL, spawn the task.
Spawn ==
    /\ dl = "loop"
    /\ LET k == Len(segment_file_names) + 1 IN
        /\ segment_file_names' = Append(segment_file_names, segments[k])
        /\ task' = [task EXCEPT ![k] = "select"]
        /\ dl' = IF k = Len(segments) THEN "join_all" ELSE "loop"
    /\ UNCHANGED <<parallelism, segments, ct, download_parallelism, file,
                   status, attempts, completed, joined, concat_input,
                   in_flight_at_cancel>>

\* One iteration in which Url::from_str(..)?.join(..)? fails: download()
\* returns the error, after the push; the JoinSet is dropped.
SpawnUrlError ==
    /\ dl = "loop"
    /\ LET k == Len(segment_file_names) + 1 IN
        segment_file_names' = Append(segment_file_names, segments[k])
    /\ dl' = "err"
    /\ task' = AbortedTasks
    /\ status' = StatusAfterAbort
    /\ download_parallelism' = PermitsAfterAbort
    /\ UNCHANGED <<parallelism, segments, ct, file, attempts, completed,
                   joined, concat_input, in_flight_at_cancel>>

----------------------------------------------------------------------------
(* A segment task.                                                         *)

\* AcquirePermit as it would be if the task went on without waiting for a
\* permit to be there.
AcquirePermitUngated(i) ==
    /\ task[i] = "select"
    /\ download_parallelism' = download_parallelism - 1
    /\ task' = [task EXCEPT ![i] = "sending"]
    /\ attempts' = [attempts EXCEPT ![i] = @ + 1]
    /\ UNCHANGED <<parallelism, segments, ct, dl, segment_file_names, file,
                   status, completed, joined, concat_input,
                   in_flight_at_cancel>>

\* select!: the permit.acquire() branch wins.  select! polls its branches
\* in random order, so this branch can win whenever a permit is there,
\* cancelled or not.
\* Which of the waiting tasks gets a free permit is left
\* open: the runtime polls the tasks in any order.
AcquirePermit(i) ==
    /\ task[i] = "select"
    /\ download_parallelism > 0
    /\ download_parallelism' = download_parallelism - 1
    /\ task' = [task EXCEPT ![i] = "sending"]
    /\ attempts' = [attempts EXCEPT ![i] = @ + 1]
    /\ UNCHANGED <<parallelism, segments, ct, dl, segment_file_names, file,
                   status, completed, joined, concat_input,
                   in_flight_at_cancel>>

\* select!: the ct.cancelled() branch wins and the task returns.
ObserveCancel(i) ==
    /\ task[i] = "select"
    /\ ct
    /\ task' = [task EXCEPT ![i] = "skipped"]
    /\ completed' = Append(completed, i)
    /\ UNCHANGED <<parallelism, segments, ct, dl, segment_file_names,
                   download_parallelism, file, status, attempts, joined,
                   concat_input, in_flight_at_cancel>>

\* PanicTask as it would be if the permit were not given back on a panic.
PanicTaskLeaksPermit(i) ==
    /\ task' = [task EXCEPT ![i] = "panicked"]
    /\ status' = [status EXCEPT ![i] = "none"]
    /\ download_parallelism' = download_parallelism
    /\ completed' = Append(completed, i)

\* The task ends by a panic of one of its unwrap()s: unwinding drops
\* _permit and the response, the JoinSet gets a JoinError.
PanicTask(i) ==
    /\ task' = [task EXCEPT ![i] = "panicked"]
    /\ status' = [status EXCEPT ![i] = "none"]
    /\ download_parallelism' = download_parallelism + 1
    /\ completed' = Append(completed, i)

\* SendFails as it would be if a failed GET were sent again, up to three
\* times, before the task gives up.
SendFailsWithRetry(i) ==
    /\ task[i] = "sending"
    /\ IF attempts[i] < 3
       THEN /\ attempts' = [attempts EXCEPT ![i] = @ + 1]
            /\ UNCHANGED <<task, status, download_parallelism, completed>>
       ELSE /\ PanicTask(i)
            /\ UNCHANGED attempts
    /\ UNCHANGED <<parallelism, segments, ct, dl, segment_file_names, file,
                   joined, concat_input, in_flight_at_cancel>>

\* client.get(media_url).send() fails: unwrap() panics.
SendFails(i) ==
    /\ task[i] = "sending"
    /\ PanicTask(i)
    /\ UNCHANGED <<parallelism, segments, ct, dl, segment_file_names, file,
                   attempts, joined, concat_input, in_flight_at_cancel>>

\* The response arrives, with any status, and File::create succeeds: the
\* status is never looked at.  From here to the end of the stream the file
\* holds a part of the body (none of it at first).
ReceiveResponse(i, st) ==
    /\ task[i] = "sending"
    /\ status' = [status EXCEPT ![i] = st]
    /\ file' = [file EXCEPT ![i] = "partial"]
    /\ task' = [task EXCEPT ![i] = "streaming"]
    /\ UNCHANGED <<parallelism, segments, ct, dl, segment_file_names,
                   download_parallelism, attempts, completed, joined,
                   concat_input, in_flight_at_cancel>>

\* The response arrives and File::create fails: unwrap() panics, no file
\* was made.
CreateFails(i) ==
    /\ task[i] = "sending"
    /\ PanicTask(i)
    /\ UNCHANGED <<parallelism, segments, ct, dl, segment_file_names, file,
                   attempts, joined, concat_input, in_flight_at_cancel>>

\* res_stream.next() yields an error, or write_all fails: unwrap() panics
\* and the file stays as it is.
StreamFails(i) ==
    /\ task[i] = "streaming"
    /\ PanicTask(i)
    /\ UNCHANGED <<parallelism, segments, ct, dl, segment_file_names, file,
                   attempts, joined, concat_input, in_flight_at_cancel>>

\* The body a response of this status class carries.
BodyOf(st) == IF st = "success" THEN "segment" ELSE "error_body"

\* res_stream.next() yields None: the whole body is on disk, whatever the
\* response was; the task returns and _permit and the response are dropped.
FinishTask(i) ==
    /\ task[i] = "streaming"
    /\ file' = [file EXCEPT ![i] = BodyOf(status[i])]
    /\ status' = [status EXCEPT ![i] = "none"]
    /\ task' = [task EXCEPT ![i] = "done"]
    /\ download_parallelism' = download_parallelism + 1
    /\ completed' = Append(completed, i)
    /\ UNCHANGED <<parallelism, segments, ct, dl, segment_file_names,
                   attempts, joined, concat_input, in_flight_at_cancel>>

----------------------------------------------------------------------------
(* download(): join_all() and concat_video.                                *)

\* join_next() yields the next finished task, in completion order, and it
\* returned (): join_all pushes its output.
JoinNextOk ==
    /\ dl = "join_all"
    /\ joined < Len(completed)
    /\ task[completed[joined + 1]] \in Returned
    /\ joined' = joined + 1
    /\ UNCHANGED <<parallelism, segments, ct, dl, segment_file_names, task,
                   download_parallelism, file, status, attempts, completed,
                   concat_input, in_flight_at_cancel>>

\* join_next() yields a JoinError: join_all resumes the panic, download()
\* unwinds and the JoinSet is dropped.
JoinNextPanic ==
    /\ dl = "join_all"
    /\ joined < Len(completed)
    /\ task[completed[joined + 1]] = "panicked"
    /\ joined' = joined + 1
    /\ dl' = "panic"
    /\ task' = AbortedTasks
    /\ status' = StatusAfterAbort
    /\ download_parallelism' = PermitsAfterAbort
    /\ UNCHANGED <<parallelism, segments, ct, segment_file_names, file,
                   attempts, completed, concat_input, in_flight_at_cancel>>

\* ConcatArgument as it would be if the names were collected from the
\* tasks as they finish.
ConcatArgumentByCompletion ==
    [k \in 1..Len(completed) |-> segments[completed[k]]]

\* What download() passes to concat_video as file_names: the Vec filled by
\* the spawning loop.
ConcatArgument == segment_file_names

\* concat_video's input_string: "concat:", then every file name joined to
\* video_directory, in the order of file_names (the "|" between two paths
\* is the boundary between two elements).
InputString(video_directory, file_names) ==
    <<"concat:">> \o
    [k \in 1..Len(file_names) |-> JoinPath(video_directory, file_names[k])]

\* InvokeConcat as it would be if download() did not wait for join_all().
InvokeConcatEarly ==
    /\ dl = "join_all"
    /\ concat_input' = InputString(TempDownloadDir, ConcatArgument)
    /\ dl' = "concat"
    /\ UNCHANGED <<parallelism, segments, ct, segment_file_names, task,
                   download_parallelism, file, status, attempts, completed,
                   joined, in_flight_at_cancel>>

\* join_all() returned: download() calls concat_video, which builds the
\* input and spawns ffmpeg.
InvokeConcat ==
    /\ dl = "join_all"
    /\ joined = Len(segments)
    /\ concat_input' = InputString(TempDownloadDir, ConcatArgument)
    /\ dl' = "concat"
    /\ UNCHANGED <<parallelism, segments, ct, segment_file_names, task,
                   download_parallelism, file, status, attempts, completed,
                   joined, in_flight_at_cancel>>

\* ffmpeg exits with success, which needs every input file to exist:
\* download() returns Ok(out_file_path).
ConcatSucceeds ==
    /\ dl = "concat"
    /\ \A i \in Indices : file[i] # "none"
    /\ dl' = "ok"
    /\ UNCHANGED <<parallelism, segments, ct, segment_file_names, task,
                   download_parallelism, file, status, attempts, completed,
                   joined, concat_input, in_flight_at_cancel>>

\* ffmpeg cannot be spawned or exits with failure: concat_video bails and
\* download() returns the error.
ConcatFails ==
    /\ dl = "concat"
    /\ dl' = "err"
    /\ UNCHANGED <<parallelism, segments, ct, segment_file_names, task,
                   download_parallelism, file, status, attempts, completed,
                   joined, concat_input, in_flight_at_cancel>>

----------------------------------------------------------------------------

StatusClasses == {"success", "non_success"}

\* main and the access-token task are left out.
NoMain ==
    /\ command = "none"
    /\ main = "none"
    /\ access_token = "None"
    /\ watcher = "none"
    /\ received = <<>>
    /\ jobs = <<>>
    /\ returns = <<>>
    /\ admitted = <<>>

\* truncate_string() is not called.
NoTruncate ==
    /\ string = <<>>
    /\ max_length = 0
    /\ overflow_checks = FALSE
    /\ returned = [kind |-> "none", cut |-> 0]

\* No select! of the receive loop is being polled: there is no sleep.
NoSleep == [state |-> "none", armed_at |-> 0]

\* tokio::time::sleep(Duration::from_secs(40)), made by the select! that
\* starts when n frames have been handled.
Armed(n) == [state |-> "armed", armed_at |-> n]

\* listen_for_offline() is not called (the Download command).
NoSession ==
    /\ broadcaster_ids = <<>>
    /\ session_id = "unset"
    /\ notify = FALSE
    /\ registration = "none"
    /\ posts = <<>>
    /\ connection_url = "none"
    /\ receive = "none"
    /\ connected_to = "none"
    /\ connects = 0
    /\ stream = <<>>
    /\ frames_sent = 0
    /\ channel = <<>>
    /\ monitor = "none"
    /\ panic_message = "none"
    /\ text_messages = 0
    /\ assigned = <<>>
    /\ handled = <<>>
    /\ notified = <<>>
    /\ delivered = <<>>
    /\ timeouts = 0
    /\ sleep = NoSleep
    /\ redirects = <<>>

Next ==
    \/ Cancel /\ UNCHANGED <<session_vars, util_vars, main_vars>>
    \/ CancelAgain /\ UNCHANGED <<session_vars, util_vars, main_vars>>
    \/ Spawn /\ UNCHANGED <<session_vars, util_vars, main_vars>>
    \/ SpawnUrlError /\ UNCHANGED <<session_vars, util_vars, main_vars>>
    \/ (\E i \in Indices : AcquirePermit(i)) /\ UNCHANGED <<session_vars, util_vars, main_vars>>
    \/ (\E i \in Indices : ObserveCancel(i)) /\ UNCHANGED <<session_vars, util_vars, main_vars>>
    \/ (\E i \in Indices : SendFails(i)) /\ UNCHANGED <<session_vars, util_vars, main_vars>>
    \/ (\E i \in Indices, st \in StatusClasses : ReceiveResponse(i, st)) /\ UNCHANGED <<session_vars, util_vars, main_vars>>
    \/ (\E i \in Indices : CreateFails(i)) /\ UNCHANGED <<session_vars, util_vars, main_vars>>
    \/ (\E i \in Indices : StreamFails(i)) /\ UNCHANGED <<session_vars, util_vars, main_vars>>
    \/ (\E i \in Indices : FinishTask(i)) /\ UNCHANGED <<session_vars, util_vars, main_vars>>
    \/ JoinNextOk /\ UNCHANGED <<session_vars, util_vars, main_vars>>
    \/ JoinNextPanic /\ UNCHANGED <<session_vars, util_vars, main_vars>>
    \/ InvokeConcat /\ UNCHANGED <<session_vars, util_vars, main_vars>>
    \/ ConcatSucceeds /\ UNCHANGED <<session_vars, util_vars, main_vars>>
    \/ ConcatFails /\ UNCHANGED <<session_vars, util_vars, main_vars>>

\* A run of download() alone.
DownloadInit == Init /\ NoSession /\ NoTruncate /\ NoMain

Spec == DownloadInit /\ [][Next]_all_vars

\* A step of download() or of one of its tasks: every step but cancel().
DownloadStep ==
    \/ Spawn
    \/ SpawnUrlError
    \/ \E i \in Indices : AcquirePermit(i)
    \/ \E i \in Indices : ObserveCancel(i)
    \/ \E i \in Indices : SendFails(i)
    \/ \E i \in Indices, st \in StatusClasses : ReceiveResponse(i, st)
    \/ \E i \in Indices : CreateFails(i)
    \/ \E i \in Indices : StreamFails(i)
    \/ \E i \in Indices : FinishTask(i)
    \/ JoinNextOk
    \/ JoinNextPanic
    \/ InvokeConcat
    \/ ConcatSucceeds
    \/ ConcatFails

\* The runtime polls a task that can go on, every transfer that was
\* started comes to an end (the body or an error), and ffmpeg exits.
\* Nothing makes the user cancel.
FairSpec == Spec /\ WF_all_vars(DownloadStep /\ UNCHANGED <<session_vars, util_vars, main_vars>>)

TypeOK ==
    /\ parallelism \in 0..MaxParallelism
    /\ ct \in BOOLEAN
    /\ dl \in {"none", "loop", "join_all", "concat", "ok", "err", "panic"}
    /\ download_parallelism \in 0..parallelism
    /\ joined \in 0..Len(completed)
    /\ \A i \in Indices :
        /\ task[i] \in Unstarted \cup InFlight \cup Terminal
        /\ file[i] \in {"none", "partial", "segment", "error_body"}
        /\ status[i] \in {"none"} \cup StatusClasses
        /\ attempts[i] \in 0..1

----------------------------------------------------------------------------
(* Properties of download().                                               *)

ConcatInvoked == concat_input # <<>>

\* The completed files: a whole response body is on disk.
WholeFiles == {"segment", "error_body"}

\* C1: whatever the order in which the segment tasks finish, the file list
\* concat_video joins into ffmpeg's input is the playlist's enumeration of
\* the segments, each joined to the download directory.
C1_ConcatInputIsPlaylistOrder ==
    ConcatInvoked =>
        /\ Len(concat_input) = Len(segments) + 1
        /\ concat_input[1] = "concat:"
        /\ \A k \in Indices :
            concat_input[k + 1] = JoinPath(TempDownloadDir, segments[k])

\* C1 witness: concat_video was invoked after a later segment finished
\* before an earlier one.
C1_Witness ==
    /\ ConcatInvoked
    /\ Len(completed) >= 2
    /\ completed[1] > completed[2]
    /\ \A i \in Indices : task[i] = "done"

\* C2: the tasks in flight (permit acquired, transfer not finished) never
\* outnumber the parallelism argument.
C2_InFlightWithinLimit == Cardinality(Holders) <= parallelism

\* C2 witness: every permit is taken and another task waits at its select!.
C2_Witness ==
    /\ parallelism >= 1
    /\ Cardinality(Holders) = parallelism
    /\ \E i \in Indices : task[i] = "select"

\* C3: permits available plus tasks holding one is the parallelism
\* argument in every state: no exit of a task (return, panic, abort) keeps
\* its permit.
C3_PermitsPaired ==
    /\ download_parallelism + Cardinality(Holders) = parallelism
    /\ download_parallelism >= 0

\* C3 witness: the only permit went to a task that panicked and is held
\* again by another task.
C3_Witness ==
    /\ parallelism = 1
    /\ \E i, j \in Indices : task[i] = "panicked" /\ task[j] \in InFlight

\* C4 (the claim as stated): once cancel() was called, no task that has not
\* acquired a permit acquires one.
C4_NoAcquireAfterCancel ==
    [][ct => \A i \in Indices :
                task[i] \in Unstarted => task'[i] \notin InFlight]_vars

C6_ConcatOnlyWhenAllDone ==
    /\ (\E i \in Indices : SegState(i) = "Failed") =>
            ~ConcatInvoked /\ dl # "ok"
    /\ ConcatInvoked => \A i \in Indices : SegState(i) = "Done"

\* C7 (the claim as stated): when cancel() came while a transfer of the job
\* was in flight, concat_video is either not invoked or every file it is
\* given is a whole downloaded body.
C7_CancelledConcatSeesWholeFiles ==
    (ct /\ in_flight_at_cancel # {} /\ ConcatInvoked) =>
        \A i \in Indices : file[i] \in WholeFiles

C9_NonSuccessNeverDone ==
    \A i \in Indices : ~(task[i] = "done" /\ file[i] = "error_body")

\* C10 (the claim as stated): when a segment task has failed and download()
\* is over, every other task ran to its own end: none was aborted.
C10_FailureSparesSiblings ==
    dl = "panic" => \A j \in Indices : task[j] # "aborted"

----------------------------------------------------------------------------
(* listen_for_offline() (src/eventsub.rs): the EventSub session.           *)
(*                                                                         *)
(* The call makes the mpsc channel, the OnceCell session_id and the Notify *)
(* and spawns two tasks: the receive task, which owns the websocket and    *)
(* the sender tx, and the registration task, which posts one subscription  *)
(* per broadcaster id.  The caller (the Monitor arm of main) keeps the     *)
(* receiver.  The server is the environment: it may send any frame.        *)

\* Most channels the Monitor command is given.
MaxSubjects == 2
\* Most frames the server sends over all connections of one run.
MaxFrames == 3

\* mpsc::channel::<u64>(1)
ChannelCapacity == 1

TWITCH_EVENTSUB_WS_URL == "wss://eventsub.wss.twitch.tv/ws?keepalive_timeout_seconds=30"

\* The k-th channel id of the command line.
BroadcasterId(k) == IF k = 1 THEN 42 ELSE 97 + k

\* What a frame can carry where the code looks: payload.session.id,
\* metadata.message_type, payload.event.broadcaster_user_id and
\* payload.session.reconnect_url; "null" is an absent field.  `conn` is the
\* connection the server sent it on.
Text(message_type, id, broadcaster_user_id, reconnect_url) ==
    [kind |-> "text", conn |-> 0, message_type |-> message_type, id |-> id,
     broadcaster_user_id |-> broadcaster_user_id,
     reconnect_url |-> reconnect_url]

\* A frame that is not a JSON text: a text that does not parse ("invalid"),
\* a Close frame ("close"), a Ping, Pong or Binary frame ("other").
NonText(kind) ==
    [kind |-> kind, conn |-> 0, message_type |-> "null", id |-> "null",
     broadcaster_user_id |-> "null", reconnect_url |-> "null"]

SessionIds == {"s1", "s2"}
ReconnectUrls == {"wss://reconnect-a", "wss://reconnect-b"}
\* The broadcaster_user_id strings the server's notifications carry.
EventIds == {"42", "99"}

\* str::parse::<u64>() on the strings of EventIds.
ParseU64(s) == IF s = "42" THEN 42 ELSE 99

Frames ==
    {Text("session_welcome", s, "null", "null") : s \in SessionIds}
    \cup {Text("notification", "null", u, "null") : u \in EventIds \cup {"null"}}
    \cup {Text("session_reconnect", "null", "null", u) : u \in ReconnectUrls \cup {"null"}}
    \cup {Text(t, "null", "null", "null") : t \in {"session_keepalive", "revocation", "null"}}
    \cup {NonText(k) : k \in {"invalid", "close", "other"}}

\* The receive task has a websocket open.
Connected == {"select", "notify_one", "send"}
\* The receive task is over: its tx is dropped, which closes the channel.
Over == {"ended", "panicked"}

\* The state after listen_for_offline() returned Ok(rx): both tasks are
\* spawned, nothing has run.
SessionInit ==
    /\ \E n \in 0..MaxSubjects : broadcaster_ids = [k \in 1..n |-> BroadcasterId(k)]
    /\ session_id = "unset"
    /\ notify = FALSE
    /\ registration = "spawned"
    /\ posts = <<>>
    /\ connection_url = "none"
    /\ receive = "connect"
    /\ connected_to = "none"
    /\ connects = 0
    /\ stream = <<>>
    /\ frames_sent = 0
    /\ channel = <<>>
    /\ monitor = "recv"
    /\ panic_message = "none"
    /\ text_messages = 0
    /\ assigned = <<>>
    /\ handled = <<>>
    /\ notified = <<>>
    /\ delivered = <<>>
    /\ timeouts = 0
    /\ sleep = NoSleep
    /\ redirects = <<>>

\* No download() is running (the Monitor loop is between two events).
NoDownload ==
    /\ parallelism = MaxParallelism
    /\ segments = <<>>
    /\ ct = FALSE
    /\ dl = "none"
    /\ segment_file_names = <<>>
    /\ task = <<>>
    /\ download_parallelism = parallelism
    /\ file = <<>>
    /\ status = <<>>
    /\ attempts = <<>>
    /\ completed = <<>>
    /\ joined = 0
    /\ concat_input = <<>>
    /\ in_flight_at_cancel = {}

----------------------------------------------------------------------------
(* The server.                                                             *)

\* The server sends one frame on the connection that is open.
ServerSends(f) ==
    /\ receive \in Connected
    /\ frames_sent < MaxFrames
    /\ frames_sent' = frames_sent + 1
    /\ stream' = Append(stream, [f EXCEPT !.conn = connects])
    /\ UNCHANGED <<broadcaster_ids, sleep, session_id, notify, registration, posts,
                   connection_url, receive, connected_to, connects, channel,
                   monitor, panic_message, text_messages, assigned, handled,
                   notified, delivered, timeouts, redirects>>

----------------------------------------------------------------------------
(* The receive task: 'all loop, 'session loop and handle_ws_message.       *)

\* Connect as it would be if every connection went to the default
\* endpoint.
ConnectToDefault ==
    /\ receive = "connect"
    /\ connects' = connects + 1
    /\ connected_to' = TWITCH_EVENTSUB_WS_URL
    /\ connection_url' = "none"
    /\ text_messages' = 0
    /\ receive' = "select"
    /\ sleep' = Armed(Len(handled))
    /\ UNCHANGED <<broadcaster_ids, session_id, notify, registration, posts,
                   stream, frames_sent, channel, monitor, panic_message,
                   assigned, handled, notified, delivered, timeouts,
                   redirects>>

\* The top of 'all: the upgrade request goes to connection_url, or to the
\* default endpoint when connection_url is None (unwrap_or moves the value
\* out), and the websocket is split into a new stream.  The stream of the
\* connection before went when the loop left it, so nothing is unread.
Connect ==
    /\ receive = "connect"
    /\ connects' = connects + 1
    /\ connected_to' = IF connection_url = "none" THEN TWITCH_EVENTSUB_WS_URL
                                                  ELSE connection_url
    /\ connection_url' = "none"
    /\ text_messages' = 0
    /\ receive' = "select"
    /\ sleep' = Armed(Len(handled))
    /\ UNCHANGED <<broadcaster_ids, session_id, notify, registration, posts,
                   stream, frames_sent, channel, monitor, panic_message,
                   assigned, handled, notified, delivered, timeouts,
                   redirects>>

\* send() or into_websocket() returns Err: the unwrap() panics the task.
ConnectFails ==
    /\ receive = "connect"
    /\ connects' = connects + 1
    /\ connection_url' = "none"
    /\ receive' = "panicked"
    /\ panic_message' = "upgrade"
    /\ UNCHANGED <<broadcaster_ids, sleep, session_id, notify, registration, posts,
                   connected_to, stream, frames_sent, channel, monitor,
                   text_messages, assigned, handled, notified, delivered,
                   timeouts, redirects>>

\* ObserveCancelled as it would be if the branch went on with the loop
\* instead of leaving it.
ObserveCancelledContinues ==
    /\ receive = "select"
    /\ ct
    /\ sleep' = Armed(Len(handled))
    /\ UNCHANGED <<broadcaster_ids, session_id, notify, registration, posts,
                   connection_url, receive, connected_to, connects, stream,
                   frames_sent, channel, monitor, panic_message,
                   text_messages, assigned, handled, notified, delivered,
                   timeouts, redirects>>

\* select!: ct.cancelled() wins, break 'all.  The task returns and drops
\* the websocket and tx.
ObserveCancelled ==
    /\ receive = "select"
    /\ ct
    /\ receive' = "ended"
    /\ stream' = <<>>
    /\ sleep' = NoSleep
    /\ UNCHANGED <<broadcaster_ids, session_id, notify, registration, posts,
                   connection_url, connected_to, connects, frames_sent,
                   channel, monitor, panic_message, text_messages, assigned,
                   handled, notified, delivered, timeouts, redirects>>

\* 40 s pass in the select! with the stream yielding nothing (a stream
\* that ended or failed does not match Some(Ok(message)) and is silent
\* too): the sleep of this select! is ready.
SleepElapses ==
    /\ receive = "select"
    /\ stream = <<>>
    /\ sleep.state = "armed"
    /\ sleep' = [sleep EXCEPT !.state = "elapsed"]
    /\ UNCHANGED <<broadcaster_ids, session_id, notify, registration, posts,
                   connection_url, receive, connected_to, connects, stream,
                   frames_sent, channel, monitor, panic_message,
                   text_messages, assigned, handled, notified, delivered,
                   timeouts, redirects>>

\* select!: the sleep wins, being ready (a frame that came after the 40 s
\* may be ready too: the select! picks either).  The branch panics.  The
\* sleep is made anew by every select!, so it is the one armed since the
\* last frame was handled.
KeepaliveTimeout ==
    /\ receive = "select"
    /\ sleep.state = "elapsed"
    /\ timeouts' = timeouts + 1
    /\ receive' = "panicked"
    /\ panic_message' = "keepalive"
    /\ sleep' = NoSleep
    /\ UNCHANGED <<broadcaster_ids, session_id, notify, registration, posts,
                   connection_url, connected_to, connects, stream,
                   frames_sent, channel, monitor, text_messages, assigned,
                   handled, notified, delivered, redirects>>

\* select!: stream.next() wins with Some(Ok(message)); the message is the
\* oldest unread frame of the connection.
Message == Head(stream)

Polled == receive = "select" /\ stream # <<>>

\* handle_ws_message on a text message while session_id is not set, as it
\* would be if the cell were overwritten by every message that carries an
\* id.
HandleFirstTextOverwriting ==
    /\ Polled
    /\ Message.kind = "text"
    /\ session_id = "unset" \/ Message.id # "null"
    /\ session_id' = Message.id
    /\ assigned' = Append(assigned, [connection |-> connects,
                                     text_message |-> text_messages + 1,
                                     id |-> Message.id])
    /\ receive' = "notify_one"
    /\ stream' = Tail(stream)
    /\ text_messages' = text_messages + 1
    /\ handled' = Append(handled, <<Message.conn, connects>>)
    /\ sleep' = NoSleep
    /\ UNCHANGED <<broadcaster_ids, notify, registration, posts,
                   connection_url, connected_to, connects, frames_sent,
                   channel, monitor, panic_message, notified, delivered,
                   timeouts, redirects>>

\* handle_ws_message on a text message while session_id is not set:
\* session_id.set(m["payload"]["session"]["id"]), whatever the message is
\* (indexing a field that is not there gives Null).  notify_one() follows.
HandleFirstText ==
    /\ Polled
    /\ Message.kind = "text"
    /\ session_id = "unset"
    /\ session_id' = Message.id
    /\ assigned' = Append(assigned, [connection |-> connects,
                                     text_message |-> text_messages + 1,
                                     id |-> Message.id])
    /\ receive' = "notify_one"
    /\ stream' = Tail(stream)
    /\ text_messages' = text_messages + 1
    /\ handled' = Append(handled, <<Message.conn, connects>>)
    /\ sleep' = NoSleep
    /\ UNCHANGED <<broadcaster_ids, notify, registration, posts,
                   connection_url, connected_to, connects, frames_sent,
                   channel, monitor, panic_message, notified, delivered,
                   timeouts, redirects>>

\* NotifyOne as it would be if it woke only a task that waits already
\* (notify_waiters()): no permit is left for a task that comes later.
NotifyOneWakesWaitersOnly ==
    /\ receive = "notify_one"
    /\ notify' = (registration = "notified")
    /\ receive' = "select"
    /\ sleep' = Armed(Len(handled))
    /\ UNCHANGED <<broadcaster_ids, session_id, registration, posts,
                   connection_url, connected_to, connects, stream,
                   frames_sent, channel, monitor, panic_message,
                   text_messages, assigned, handled, notified, delivered,
                   timeouts, redirects>>

\* notify.notify_one(): wakes the registration task if it waits, leaves a
\* permit for it if it does not yet.  The handler returns None.
NotifyOne ==
    /\ receive = "notify_one"
    /\ notify' = TRUE
    /\ receive' = "select"
    /\ sleep' = Armed(Len(handled))
    /\ UNCHANGED <<broadcaster_ids, session_id, registration, posts,
                   connection_url, connected_to, connects, stream,
                   frames_sent, channel, monitor, panic_message,
                   text_messages, assigned, handled, notified, delivered,
                   timeouts, redirects>>

\* The messages handle_ws_message answers with SocketAction::None and no
\* other effect: a frame that is neither Text nor Close, and, once
\* session_id is set, a text whose message_type is not a string, is
\* "session_keepalive" or is none of the three types the match names.
Ignored(f) ==
    \/ f.kind = "other"
    \/ /\ f.kind = "text"
       /\ session_id # "unset"
       /\ f.message_type \notin {"notification", "session_reconnect"}

\* HandleIgnored as it would be if one sleep were made before the 'session
\* loop and polled by every select!.
HandleIgnoredKeepsSleep ==
    /\ Polled
    /\ Ignored(Message)
    /\ stream' = Tail(stream)
    /\ text_messages' = text_messages + (IF Message.kind = "text" THEN 1 ELSE 0)
    /\ handled' = Append(handled, <<Message.conn, connects>>)
    /\ UNCHANGED <<broadcaster_ids, sleep, session_id, notify, registration,
                   posts, connection_url, receive, connected_to, connects,
                   frames_sent, channel, monitor, panic_message, assigned,
                   notified, delivered, timeouts, redirects>>

\* HandleIgnored as it would be if a message that is not understood made
\* the loop drop the connection and connect again.
HandleIgnoredReconnects ==
    /\ Polled
    /\ Ignored(Message)
    /\ stream' = <<>>
    /\ receive' = "connect"
    /\ text_messages' = text_messages + (IF Message.kind = "text" THEN 1 ELSE 0)
    /\ handled' = Append(handled, <<Message.conn, connects>>)
    /\ sleep' = NoSleep
    /\ UNCHANGED <<broadcaster_ids, session_id, notify, registration, posts,
                   connection_url, connected_to, connects, frames_sent,
                   channel, monitor, panic_message, assigned, notified,
                   delivered, timeouts, redirects>>

HandleIgnored ==
    /\ Polled
    /\ Ignored(Message)
    /\ stream' = Tail(stream)
    /\ text_messages' = text_messages + (IF Message.kind = "text" THEN 1 ELSE 0)
    /\ handled' = Append(handled, <<Message.conn, connects>>)
    /\ sleep' = Armed(Len(handled'))
    /\ UNCHANGED <<broadcaster_ids, session_id, notify, registration, posts,
                   connection_url, receive, connected_to, connects,
                   frames_sent, channel, monitor, panic_message, assigned,
                   notified, delivered, timeouts, redirects>>

\* "notification" with a broadcaster_user_id that parses: the handler
\* reaches tx.send(id).await.
HandleNotification ==
    /\ Polled
    /\ Message.kind = "text"
    /\ session_id # "unset"
    /\ Message.message_type = "notification"
    /\ Message.broadcaster_user_id # "null"
    /\ notified' = Append(notified, ParseU64(Message.broadcaster_user_id))
    /\ receive' = "send"
    /\ stream' = Tail(stream)
    /\ text_messages' = text_messages + 1
    /\ handled' = Append(handled, <<Message.conn, connects>>)
    /\ sleep' = NoSleep
    /\ UNCHANGED <<broadcaster_ids, session_id, notify, registration, posts,
                   connection_url, connected_to, connects, frames_sent,
                   channel, monitor, panic_message, assigned, delivered,
                   timeouts, redirects>>

\* SendCompletes as it would be with try_send(): a full channel loses the
\* id.
SendCompletesOrDrops ==
    /\ receive = "send"
    /\ monitor # "gone"
    /\ IF Len(channel) < ChannelCapacity
         THEN /\ channel' = Append(channel, notified[Len(notified)])
              /\ delivered' = Append(delivered, notified[Len(notified)])
         ELSE UNCHANGED <<channel, delivered>>
    /\ receive' = "select"
    /\ sleep' = Armed(Len(handled))
    /\ UNCHANGED <<broadcaster_ids, session_id, notify, registration, posts,
                   connection_url, connected_to, connects, stream,
                   frames_sent, monitor, panic_message, text_messages,
                   assigned, handled, notified, timeouts, redirects>>

\* tx.send(id).await returns Ok: the channel had room, or got it when the
\* Monitor loop received.  Until then the handler, and with it the select!,
\* waits.
SendCompletes ==
    /\ receive = "send"
    /\ monitor # "gone"
    /\ Len(channel) < ChannelCapacity
    /\ channel' = Append(channel, notified[Len(notified)])
    /\ delivered' = Append(delivered, notified[Len(notified)])
    /\ receive' = "select"
    /\ sleep' = Armed(Len(handled))
    /\ UNCHANGED <<broadcaster_ids, session_id, notify, registration, posts,
                   connection_url, connected_to, connects, stream,
                   frames_sent, monitor, panic_message, text_messages,
                   assigned, handled, notified, timeouts, redirects>>

\* tx.send(id).await returns Err, the receiver being dropped: expect()
\* panics.
SendFailsClosed ==
    /\ receive = "send"
    /\ monitor = "gone"
    /\ receive' = "panicked"
    /\ panic_message' = "announce"
    /\ stream' = <<>>
    /\ UNCHANGED <<broadcaster_ids, sleep, session_id, notify, registration, posts,
                   connection_url, connected_to, connects, frames_sent,
                   channel, monitor, text_messages, assigned, handled,
                   notified, delivered, timeouts, redirects>>

\* HandleReconnect as it would be if the old websocket were kept and read
\* on after the new one is opened.
HandleReconnectKeepsStream ==
    /\ Polled
    /\ Message.kind = "text"
    /\ session_id # "unset"
    /\ Message.message_type = "session_reconnect"
    /\ Message.reconnect_url # "null"
    /\ connection_url' = Message.reconnect_url
    /\ redirects' = Append(redirects, Message.reconnect_url)
    /\ receive' = "connect"
    /\ stream' = Tail(stream)
    /\ text_messages' = text_messages + 1
    /\ handled' = Append(handled, <<Message.conn, connects>>)
    /\ sleep' = NoSleep
    /\ UNCHANGED <<broadcaster_ids, session_id, notify, registration, posts,
                   connected_to, connects, frames_sent, channel, monitor,
                   panic_message, assigned, notified, delivered, timeouts>>

\* "session_reconnect" with a reconnect_url: the handler returns
\* Reconnect(url), the loop stores it in connection_url and breaks
\* 'session.  The iteration of 'all ends, which drops the websocket and
\* what it held unread.
HandleReconnect ==
    /\ Polled
    /\ Message.kind = "text"
    /\ session_id # "unset"
    /\ Message.message_type = "session_reconnect"
    /\ Message.reconnect_url # "null"
    /\ connection_url' = Message.reconnect_url
    /\ redirects' = Append(redirects, Message.reconnect_url)
    /\ receive' = "connect"
    /\ stream' = <<>>
    /\ text_messages' = text_messages + 1
    /\ handled' = Append(handled, <<Message.conn, connects>>)
    /\ sleep' = NoSleep
    /\ UNCHANGED <<broadcaster_ids, session_id, notify, registration, posts,
                   connected_to, connects, frames_sent, channel, monitor,
                   panic_message, assigned, notified, delivered, timeouts>>

\* What handle_ws_message panics with on f, "none" if it does not: a text
\* that is not JSON, a Close frame, a notification without a
\* broadcaster_user_id that parses, a session_reconnect without a
\* reconnect_url.
PanicOn(f) ==
    CASE f.kind = "invalid" -> "json"
      [] f.kind = "close" -> "close"
      [] /\ f.kind = "text"
         /\ session_id # "unset"
         /\ f.message_type = "notification"
         /\ f.broadcaster_user_id = "null" -> "broadcaster_user_id"
      [] /\ f.kind = "text"
         /\ session_id # "unset"
         /\ f.message_type = "session_reconnect"
         /\ f.reconnect_url = "null" -> "reconnect_url"
      [] OTHER -> "none"

HandlerPanics ==
    /\ Polled
    /\ PanicOn(Message) # "none"
    /\ receive' = "panicked"
    /\ panic_message' = PanicOn(Message)
    /\ stream' = <<>>
    /\ handled' = Append(handled, <<Message.conn, connects>>)
    /\ sleep' = NoSleep
    /\ UNCHANGED <<broadcaster_ids, session_id, notify, registration, posts,
                   connection_url, connected_to, connects, frames_sent,
                   channel, monitor, text_messages, assigned, notified,
                   delivered, timeouts, redirects>>

----------------------------------------------------------------------------
(* The registration task.                                                  *)

\* The registration task is polled for the first time and comes to
\* notify.notified().await: from here on it is a waiter of the Notify.
RegistrationWaits ==
    /\ registration = "spawned"
    /\ registration' = "notified"
    /\ UNCHANGED <<broadcaster_ids, sleep, session_id, notify, posts,
                   connection_url, receive, connected_to, connects, stream,
                   frames_sent, channel, monitor, panic_message,
                   text_messages, assigned, handled, notified, delivered,
                   timeouts, redirects>>

\* Notified as it would be if the task did not wait for the Notify.
NotifiedWithoutWaiting ==
    /\ registration = "notified"
    /\ notify' = FALSE
    /\ registration' = IF session_id = "unset" THEN "panicked"
                       ELSE IF broadcaster_ids = <<>> THEN "done"
                       ELSE "posting"
    /\ UNCHANGED <<broadcaster_ids, sleep, session_id, posts, connection_url,
                   receive, connected_to, connects, stream, frames_sent,
                   channel, monitor, panic_message, text_messages, assigned,
                   handled, notified, delivered, timeouts, redirects>>

\* notify.notified().await returns, taking the permit; the task then reads
\* session_id.get().unwrap(), which panics on a cell that is not set.
Notified ==
    /\ registration = "notified"
    /\ notify
    /\ notify' = FALSE
    /\ registration' = IF session_id = "unset" THEN "panicked"
                       ELSE IF broadcaster_ids = <<>> THEN "done"
                       ELSE "posting"
    /\ UNCHANGED <<broadcaster_ids, sleep, session_id, posts, connection_url,
                   receive, connected_to, connects, stream, frames_sent,
                   channel, monitor, panic_message, text_messages, assigned,
                   handled, notified, delivered, timeouts, redirects>>

\* One turn of `for id in broadcaster_ids`: the POST carries the id and
\* session_id.get().unwrap(), and a response comes back.  A status that is
\* not a success is logged and the loop goes on as after a success.
PostSubscription ==
    /\ registration = "posting"
    /\ posts' = Append(posts, [id |-> broadcaster_ids[Len(posts) + 1],
                               session_id |-> session_id])
    /\ registration' = IF Len(posts') = Len(broadcaster_ids) THEN "done"
                                                             ELSE "posting"
    /\ UNCHANGED <<broadcaster_ids, sleep, session_id, notify, connection_url,
                   receive, connected_to, connects, stream, frames_sent,
                   channel, monitor, panic_message, text_messages, assigned,
                   handled, notified, delivered, timeouts, redirects>>

\* send() returns Err (no response): the unwrap() panics the task.
PostFails ==
    /\ registration = "posting"
    /\ registration' = "panicked"
    /\ UNCHANGED <<broadcaster_ids, sleep, session_id, notify, posts,
                   connection_url, receive, connected_to, connects, stream,
                   frames_sent, channel, monitor, panic_message,
                   text_messages, assigned, handled, notified, delivered,
                   timeouts, redirects>>

----------------------------------------------------------------------------
(* The Monitor loop of main: while let Some(uid) = receiver.recv().await.  *)

\* recv() returns Some(uid).
Recv ==
    /\ monitor = "recv"
    /\ channel # <<>>
    /\ channel' = Tail(channel)
    /\ monitor' = "processing"
    /\ UNCHANGED <<broadcaster_ids, sleep, session_id, notify, registration, posts,
                   connection_url, receive, connected_to, connects, stream,
                   frames_sent, panic_message, text_messages, assigned,
                   handled, notified, delivered, timeouts, redirects>>

\* recv() returns None: the channel is empty and tx is dropped.  The loop
\* ends and main returns.
RecvNone ==
    /\ monitor = "recv"
    /\ channel = <<>>
    /\ receive \in Over
    /\ monitor' = "gone"
    /\ UNCHANGED <<broadcaster_ids, sleep, session_id, notify, registration, posts,
                   connection_url, receive, connected_to, connects, stream,
                   frames_sent, channel, panic_message, text_messages,
                   assigned, handled, notified, delivered, timeouts,
                   redirects>>

\* The body of the loop ran to its end for this uid.
EventDone ==
    /\ monitor = "processing"
    /\ monitor' = "recv"
    /\ UNCHANGED <<broadcaster_ids, sleep, session_id, notify, registration, posts,
                   connection_url, receive, connected_to, connects, stream,
                   frames_sent, channel, panic_message, text_messages,
                   assigned, handled, notified, delivered, timeouts,
                   redirects>>

\* The body of the loop left main: an unwrap() panicked, or the download
\* returned with ct cancelled.  The receiver is dropped.
EventAborts ==
    /\ monitor = "processing"
    /\ monitor' = "gone"
    /\ UNCHANGED <<broadcaster_ids, sleep, session_id, notify, registration, posts,
                   connection_url, receive, connected_to, connects, stream,
                   frames_sent, channel, panic_message, text_messages,
                   assigned, handled, notified, delivered, timeouts,
                   redirects>>

SessionNext ==
    \/ Cancel /\ UNCHANGED <<session_vars, util_vars, main_vars>>
    \/ CancelAgain /\ UNCHANGED <<session_vars, util_vars, main_vars>>
    \/ (\E f \in Frames : ServerSends(f)) /\ UNCHANGED <<vars, util_vars, main_vars>>
    \/ Connect /\ UNCHANGED <<vars, util_vars, main_vars>>
    \/ ConnectFails /\ UNCHANGED <<vars, util_vars, main_vars>>
    \/ ObserveCancelled /\ UNCHANGED <<vars, util_vars, main_vars>>
    \/ SleepElapses /\ UNCHANGED <<vars, util_vars, main_vars>>
    \/ KeepaliveTimeout /\ UNCHANGED <<vars, util_vars, main_vars>>
    \/ HandleFirstText /\ UNCHANGED <<vars, util_vars, main_vars>>
    \/ NotifyOne /\ UNCHANGED <<vars, util_vars, main_vars>>
    \/ HandleIgnored /\ UNCHANGED <<vars, util_vars, main_vars>>
    \/ HandleNotification /\ UNCHANGED <<vars, util_vars, main_vars>>
    \/ SendCompletes /\ UNCHANGED <<vars, util_vars, main_vars>>
    \/ SendFailsClosed /\ UNCHANGED <<vars, util_vars, main_vars>>
    \/ HandleReconnect /\ UNCHANGED <<vars, util_vars, main_vars>>
    \/ HandlerPanics /\ UNCHANGED <<vars, util_vars, main_vars>>
    \/ RegistrationWaits /\ UNCHANGED <<vars, util_vars, main_vars>>
    \/ Notified /\ UNCHANGED <<vars, util_vars, main_vars>>
    \/ PostSubscription /\ UNCHANGED <<vars, util_vars, main_vars>>
    \/ PostFails /\ UNCHANGED <<vars, util_vars, main_vars>>
    \/ Recv /\ UNCHANGED <<vars, util_vars, main_vars>>
    \/ RecvNone /\ UNCHANGED <<vars, util_vars, main_vars>>
    \/ EventDone /\ UNCHANGED <<vars, util_vars, main_vars>>
    \/ EventAborts /\ UNCHANGED <<vars, util_vars, main_vars>>

\* A run of the session alone.
MonitorInit == NoDownload /\ SessionInit /\ NoTruncate /\ NoMain

SessionSpec == MonitorInit /\ [][SessionNext]_all_vars

\* A step of the receive task, but for the passing of time.
ReceiveStep ==
    \/ Connect
    \/ ConnectFails
    \/ ObserveCancelled
    \/ KeepaliveTimeout
    \/ HandleFirstText
    \/ NotifyOne
    \/ HandleIgnored
    \/ HandleNotification
    \/ SendCompletes
    \/ SendFailsClosed
    \/ HandleReconnect
    \/ HandlerPanics

\* A step of the Monitor loop.
MonitorStep == Recv \/ RecvNone \/ EventDone \/ EventAborts

\* A step of the registration task.
RegistrationStep ==
    \/ RegistrationWaits
    \/ Notified
    \/ PostSubscription
    \/ PostFails

\* The runtime polls a task that can go on, the upgrade request and the
\* subscription request get their answer, and the body of the Monitor
\* loop comes to an end.  Nothing makes the server send or the user
\* cancel.
FairSessionSpec ==
    /\ SessionSpec
    /\ WF_all_vars(ReceiveStep /\ UNCHANGED <<vars, util_vars, main_vars>>)
    /\ WF_all_vars(MonitorStep /\ UNCHANGED <<vars, util_vars, main_vars>>)
    /\ WF_all_vars(RegistrationStep /\ UNCHANGED <<vars, util_vars, main_vars>>)

SessionTypeOK ==
    /\ session_id \in {"unset", "null"} \cup SessionIds
    /\ notify \in BOOLEAN
    /\ registration \in {"spawned", "notified", "posting", "done", "panicked"}
    /\ Len(posts) <= Len(broadcaster_ids)
    /\ connection_url \in {"none"} \cup ReconnectUrls
    /\ receive \in {"connect"} \cup Connected \cup Over
    /\ connects \in 0..(MaxFrames + 1)
    /\ frames_sent \in 0..MaxFrames
    /\ Len(channel) <= ChannelCapacity
    /\ monitor \in {"recv", "processing", "gone"}
    /\ receive = "panicked" <=> panic_message # "none"
    /\ sleep.state \in {"none", "armed", "elapsed"}
    /\ receive = "select" <=> sleep.state # "none"

----------------------------------------------------------------------------
(* Properties of the EventSub session.                                     *)

\* C11: no subscription POST is sent, and the registration task does not
\* get past notified(), before session_id is set: every POST carries a
\* session_id that was read from a cell that is set.
C11_RegistrationAfterSessionId ==
    /\ registration \notin {"spawned", "notified"} => session_id # "unset"
    /\ \A k \in 1..Len(posts) : posts[k].session_id # "unset"

\* C11's case: every channel got its POST.
C11_Witness ==
    /\ broadcaster_ids # <<>>
    /\ Len(posts) = Len(broadcaster_ids)
    /\ registration = "done"

C13_FirstMessageWithoutIdRejected ==
    /\ \A k \in 1..Len(assigned) : assigned[k].id # "null"
    /\ \A k \in 1..Len(posts) : posts[k].session_id # "null"

\* C14: once session_id is set, the step in which the 40 s sleep wins
\* leaves the receive task at the top of its loop, about to connect to the
\* default endpoint, with its sender alive.
C14_TimeoutReconnectsToDefault ==
    [][(session_id # "unset" /\ timeouts' # timeouts) =>
          receive' = "connect" /\ connection_url' = "none"]_all_vars

\* C15: with ct not cancelled, the step that handles a Close frame does
\* not end the receive task.
C15_CloseFrameReconnects ==
    [][(Polled /\ Message.kind = "close" /\ ~ct) =>
          receive' \notin Over]_all_vars

\* C16: the connection attempts made or due are the first one, one per
\* session_reconnect obeyed and one per keepalive timeout.
C16_OneAttemptPerTimeout ==
    connects + (IF receive = "connect" THEN 1 ELSE 0)
        = 1 + Len(redirects) + timeouts

C18_ConnectFailureIsNotFatal ==
    [][receive = "connect" => receive' \notin Over]_all_vars

\* C19: every frame was handled by the connection it was sent on, and the
\* stream holds frames of the current connection only.
C19_NoFrameOfOldConnection ==
    /\ \A k \in 1..Len(handled) : handled[k][1] = handled[k][2]
    /\ \A k \in 1..Len(stream) : stream[k].conn = connects

\* C19's case: the loop left the first connection while a frame of it was
\* unread, and reads the second connection.
C19_Witness ==
    /\ connects = 2
    /\ receive = "select"
    /\ stream = <<>>
    /\ Len(handled) < frames_sent

\* C20: the ids that entered the channel are the ids of the notifications
\* handled, in their order, each once; the one notification that may be
\* missing is the last, while its send waits for room or after its send
\* found the receiver dropped.  The channel holds the newest of them.
C20_NotificationsDeliveredInOrder ==
    /\ Len(delivered) <= Len(notified)
    /\ delivered = SubSeq(notified, 1, Len(delivered))
    /\ Len(notified) - Len(delivered) <= 1
    /\ Len(notified) # Len(delivered) =>
         receive = "send" \/ panic_message = "announce"
    /\ channel = SubSeq(delivered, Len(delivered) - Len(channel) + 1,
                        Len(delivered))

\* C20's case: two notifications of different channels were delivered.
C20_Witness ==
    /\ Len(delivered) = 2
    /\ delivered[1] # delivered[2]
    /\ receive = "select"

\* The subscription requests the registration task has issued: the POSTs
\* that got a response, and the one whose send() failed if the task
\* panicked on it.
RequestsIssued == Len(posts) + (IF registration = "panicked" THEN 1 ELSE 0)

\* C21: when the registration task is over, a request was issued for
\* every broadcaster id, whatever became of the requests before.
C21_FailureSparesOtherSubjects ==
    registration \in {"done", "panicked"} =>
        RequestsIssued = Len(broadcaster_ids)

\* A step in which the receive task does nothing.
ReceiveTaskIsStill ==
    UNCHANGED <<receive, handled, connects, connected_to, stream, delivered,
                notified>>

\* C22: once ct is cancelled the receive task comes to its end and the
\* Monitor loop leaves its recv(); a receive task that is over handles no
\* frame and opens no connection, and what it left in the channel is all
\* the receiver gets before the end of the stream.
C22_CancelledSessionTerminates ==
    /\ ct ~> (receive \in Over /\ monitor = "gone")
    /\ [][(receive \in Over) => ReceiveTaskIsStill]_all_vars

\* C22's case: the loop left by break 'all after ct was cancelled, and
\* recv() returned None.
C22_Witness ==
    /\ ct
    /\ receive = "ended"
    /\ handled # <<>>
    /\ channel = <<>>
    /\ monitor = "gone"

\* The text messages whose message_type is none of the three the match
\* names.
Unrecognized(f) ==
    /\ f.kind = "text"
    /\ f.message_type \notin {"session_keepalive", "notification",
                               "session_reconnect"}

\* C24: once session_id is set, the step that handles a text message of
\* an unrecognized message_type takes that message off the stream and
\* leaves session_id, the connection and the channel as they are, with
\* the loop back at its select!.
C24_UnrecognizedIsDiscarded ==
    [][(/\ Polled
        /\ Unrecognized(Message)
        /\ session_id # "unset"
        /\ Len(handled') > Len(handled))
       => /\ stream' = Tail(stream)
          /\ receive' = "select"
          /\ UNCHANGED <<session_id, notify, connection_url, connected_to,
                         connects, channel, notified, delivered,
                         panic_message, redirects>>]_all_vars

\* C24's case: session_id is set and the next message of the stream is of
\* an unrecognized type.
C24_Witness ==
    /\ session_id \in SessionIds
    /\ Polled
    /\ Unrecognized(Message)
    /\ Message.message_type = "revocation"

\* The frames with a missing or malformed field: a text that is not
\* JSON, a text without message_type, a notification without a
\* broadcaster_user_id that parses, a session_reconnect without a
\* reconnect_url.
Malformed(f) ==
    \/ f.kind = "invalid"
    \/ f.kind = "text" /\ f.message_type = "null"
    \/ /\ f.kind = "text"
       /\ f.message_type = "notification"
       /\ f.broadcaster_user_id = "null"
    \/ /\ f.kind = "text"
       /\ f.message_type = "session_reconnect"
       /\ f.reconnect_url = "null"

\* C25: with ct not cancelled, no step taken while a malformed frame is
\* the next of the stream ends the receive task.
C25_MalformedFrameIsSkipped ==
    [][(Polled /\ Malformed(Message) /\ ~ct) =>
          receive' \notin Over]_all_vars

\* C28: every step that brings the loop back to its select! arms a new
\* sleep; the step in which the sleep wins is taken on a sleep that
\* elapsed and that was armed after the last handled frame; and, once
\* session_id is set, the step that handles a session_keepalive changes
\* nothing but the stream it is taken from and the sleep.
C28_DeadlineRearmedByEveryFrame ==
    [][/\ (receive' = "select" /\ (receive # "select" \/ handled' # handled))
          => sleep' = Armed(Len(handled'))
       /\ timeouts' # timeouts
          => sleep.state = "elapsed" /\ sleep.armed_at = Len(handled)
       /\ (/\ Polled
           /\ Message.kind = "text"
           /\ Message.message_type = "session_keepalive"
           /\ session_id # "unset"
           /\ handled' # handled)
          => /\ receive' = "select"
             /\ UNCHANGED <<session_id, notify, registration, posts,
                            connection_url, connected_to, connects, channel,
                            monitor, panic_message, assigned, notified,
                            delivered, timeouts, redirects>>
      ]_all_vars

\* C28's case: the sleep won after three frames were handled, 40 s after
\* the last of them.
C28_Witness ==
    /\ panic_message = "keepalive"
    /\ Len(handled) = 3
    /\ session_id \in SessionIds

\* C30: after a keepalive timeout the receive task lives on, and the
\* registration task is to run again: it waits for the session_id of the
\* new connection, or has posted the broadcaster ids once more.
C30_TimeoutLeadsToRegistrationAgain ==
    (timeouts > 0 /\ posts # <<>>) =>
        /\ receive \notin Over
        /\ registration = "notified" \/ Len(posts) > Len(broadcaster_ids)

----------------------------------------------------------------------------
(* More properties of download() and of the command that calls it.         *)

\* How the command ends after download(): the Download and Archive arms
\* and the Monitor loop unwrap() its Result, and a panic of join_all()
\* passes through main; after Ok they return Ok(()) at once if ct is
\* cancelled.
MainExit ==
    CASE dl = "ok" -> "Ok"
      [] dl \in {"err", "panic"} -> "panic"
      [] OTHER -> "running"

\* C23: a cancelled token is cancelled in every later state, and a step
\* that calls cancel() on it changes nothing.
C23_CancelIsIrreversible ==
    [][ct => (ct' /\ (CancelAgain => UNCHANGED all_vars))]_all_vars

\* C23's case: download() went on to its end after the token was
\* cancelled, and the token is cancelled still.
C23_Witness ==
    /\ ct
    /\ in_flight_at_cancel # {}
    /\ dl = "ok"

\* C26: a download whose tasks were stopped by the cancellation, none of
\* them failing, does not end the command in a panic.
C26_CancelledDownloadReturnsOk ==
    (/\ ct
     /\ \E i \in Indices : task[i] = "skipped"
     /\ \A i \in Indices : task[i] \in Returned)
    => MainExit # "panic"

\* C29: while concat_video runs or has run, every segment task of the job
\* is over: none holds a permit, none waits for one.
C29_ConcatAfterAllTasksOver ==
    (dl \in {"concat", "ok"} \/ ConcatInvoked) =>
        \A i \in Indices : task[i] \in Terminal /\ i \notin Holders

\* C29's case: concat_video runs on a playlist of several segments, after
\* a task took its permit from another that gave it back.
C29_Witness ==
    /\ dl = "concat"
    /\ Len(segments) > parallelism
    /\ parallelism >= 1
    /\ \A i \in Indices : task[i] = "done"

----------------------------------------------------------------------------
(* truncate_string() (src/util.rs).                                        *)
(*                                                                         *)
(* A string is the sequence of its characters, each given by the bytes its *)
(* UTF-8 encoding takes; String::len() and str::get() count in bytes.      *)

\* Most characters of the strings the model draws.
MaxChars == 3
\* Largest max_length the model draws.
MaxLength == 8
\* The width of usize the model counts with.  The target's is 64; the
\* wrap-around of `attempted_len - 3` and of `attempted_len -= 1` is the
\* same at any width that holds the lengths.
UsizeBits == 5

Usize == 2 ^ UsizeBits

\* The bytes of one character in UTF-8.
CharWidths == 1..4

RECURSIVE ByteLen(_)
\* String::len()
ByteLen(s) == IF s = <<>> THEN 0 ELSE Head(s) + ByteLen(Tail(s))

\* The byte offsets at which s can be cut: 0, the end of every character.
Boundaries(s) == {ByteLen(SubSeq(s, 1, k)) : k \in 0..Len(s)}

\* string.get(..n) is Some: n is not beyond the end and is on a character
\* boundary.
GetIsSome(s, n) == n \in Boundaries(s)

RECURSIVE Attempt(_, _, _)
\* `string.get(..attempted_len - 3)` and the while loop after it, for a
\* build with (checks) or without overflow checks: a subtraction below
\* zero panics in the one and wraps in the other.
Attempt(s, attempted_len, checks) ==
    IF checks /\ attempted_len < 3
      THEN [kind |-> "panicked", cut |-> 0]
      ELSE IF GetIsSome(s, (attempted_len - 3) % Usize)
        THEN [kind |-> "truncated", cut |-> (attempted_len - 3) % Usize]
        ELSE IF checks /\ attempted_len = 0
          THEN [kind |-> "panicked", cut |-> 0]
          ELSE Attempt(s, (attempted_len - 1) % Usize, checks)

\* truncate_string(string, max_length): the string as it is if it is not
\* longer than max_length, else format!("{}...", truncated.unwrap()).
truncate_string(s, max, checks) ==
    IF ByteLen(s) <= max THEN [kind |-> "unchanged", cut |-> ByteLen(s)]
                         ELSE Attempt(s, max, checks)

\* The byte length of what was returned.
ReturnedLen == IF returned.kind = "truncated" THEN returned.cut + 3
                                              ELSE returned.cut

RECURSIVE Strings(_)
\* The strings of at most n characters.
Strings(n) ==
    IF n = 0 THEN {<<>>}
    ELSE Strings(n - 1) \cup
         {Append(s, w) : s \in {t \in Strings(n - 1) : Len(t) = n - 1},
                         w \in CharWidths}

TruncateInit ==
    /\ string \in Strings(MaxChars)
    /\ max_length \in 0..MaxLength
    /\ overflow_checks \in BOOLEAN
    /\ returned = [kind |-> "none", cut |-> 0]

\* The call.
Truncate ==
    /\ returned.kind = "none"
    /\ returned' = truncate_string(string, max_length, overflow_checks)
    /\ UNCHANGED <<string, max_length, overflow_checks>>

TruncateNext == Truncate /\ UNCHANGED <<vars, session_vars, main_vars>>

\* One call of truncate_string() on any string, for any max_length.
UtilInit == NoDownload /\ NoSession /\ TruncateInit /\ NoMain

TruncateSpec == UtilInit /\ [][TruncateNext]_all_vars

\* C27: the call does not panic; it returns the string as it is if that is
\* at most max_length bytes; otherwise what it returns ends in "...", is
\* at most max_length bytes and keeps a prefix cut on a character
\* boundary.
C27_TruncateStringIsTotal ==
    returned.kind # "none" =>
        /\ returned.kind # "panicked"
        /\ ByteLen(string) <= max_length => returned.kind = "unchanged"
        /\ ByteLen(string) > max_length =>
              /\ returned.kind = "truncated"
              /\ ReturnedLen <= max_length
              /\ returned.cut \in Boundaries(string)

----------------------------------------------------------------------------
(* More properties of the EventSub session.                                *)

\* The registration task has not got past notify.notified().await.
RegistrationNotWoken == registration \in {"spawned", "notified"}

\* C33: the hand-over of session_id loses no wakeup.  Once session_id is
\* set, the registration task gets past notified() and goes on to the
\* subject list, whether it came to notified() before notify_one() or
\* after it; it is woken once: past notified() it never waits again, and
\* the permit is taken by the step that wakes it.
C33_NoLostWakeup ==
    /\ (session_id # "unset") ~> ~RegistrationNotWoken
    /\ [][/\ ~RegistrationNotWoken => ~RegistrationNotWoken'
          /\ (RegistrationNotWoken /\ ~RegistrationNotWoken') =>
                /\ notify /\ ~notify'
                /\ session_id # "unset"
                /\ registration' = IF broadcaster_ids = <<>> THEN "done"
                                                            ELSE "posting"
       ]_all_vars

\* notify_one() came first: the permit is there and the registration task
\* has not come to notified() yet.
C33_Witness ==
    /\ registration = "spawned"
    /\ notify
    /\ session_id \in SessionIds
    /\ broadcaster_ids # <<>>

\* C37: a receive task that waits in tx.send() on a full channel, the
\* Monitor loop not having received yet, can go on by itself once cancel()
\* was called: it has a step that needs none of the Monitor loop.
C37_BlockedSendObservesCancel ==
    (receive = "send" /\ ct /\ Len(channel) = ChannelCapacity
        /\ monitor # "gone")
        => ENABLED (ReceiveStep /\ UNCHANGED <<vars, util_vars, main_vars>>)

----------------------------------------------------------------------------
(* Termination of download().                                              *)

\* C34: a download job terminates, for every parallelism: every spawned
\* task comes to a terminal state, none waits for a permit for ever, and
\* join_all() returns, cancelled or not.
C34_DownloadTerminates ==
    <>(/\ dl \notin {"loop", "join_all"}
       /\ \A i \in Indices : task[i] \in Terminal \cup {"unspawned"})

----------------------------------------------------------------------------
(* main(): the Download, Archive and Monitor commands, each with the       *)
(* download() it awaits, and the access-token task.  Of the EventSub       *)
(* session the Monitor command sees the channel and whether the receive    *)
(* task still holds tx; that is what is kept of it here.                   *)

\* Largest playlist of a download() that main calls.
MaxJobSegments == 2
\* Most ids the receive task sends in a run of the Monitor command.
MaxEvents == 2

Commands == {"Download", "Archive", "Monitor"}

\* main has returned or panicked: the runtime is dropped, the process ends.
MainOver == {"returned", "panicked"}

MainRunning == main \notin {"none"} \cup MainOver

\* The uid of the event the Monitor loop is working on; 0 stands for the
\* vod named on the command line.
CurrentUid == IF command = "Monitor" THEN received[Len(received)] ELSE 0

MainInit ==
    /\ parallelism \in 0..MaxParallelism
    /\ segments = <<>>
    /\ ct = FALSE
    /\ dl = "none"
    /\ segment_file_names = <<>>
    /\ task = <<>>
    /\ download_parallelism = parallelism
    /\ file = <<>>
    /\ status = <<>>
    /\ attempts = <<>>
    /\ completed = <<>>
    /\ joined = 0
    /\ concat_input = <<>>
    /\ in_flight_at_cancel = {}
    /\ command \in Commands
    /\ main = IF command = "Monitor" THEN "loop" ELSE "start"
    /\ access_token = "None"
    /\ watcher = IF command = "Download" THEN "none" ELSE "generate"
    /\ received = <<>>
    /\ jobs = <<>>
    /\ returns = <<>>
    /\ admitted = <<>>
    /\ broadcaster_ids = <<>>
    /\ session_id = "unset"
    /\ notify = FALSE
    /\ registration = "none"
    /\ posts = <<>>
    /\ connection_url = "none"
    /\ receive = IF command = "Monitor" THEN "select" ELSE "none"
    /\ connected_to = "none"
    /\ connects = 0
    /\ stream = <<>>
    /\ frames_sent = 0
    /\ channel = <<>>
    /\ monitor = IF command = "Monitor" THEN "recv" ELSE "none"
    /\ panic_message = "none"
    /\ text_messages = 0
    /\ assigned = <<>>
    /\ handled = <<>>
    /\ notified = <<>>
    /\ delivered = <<>>
    /\ timeouts = 0
    /\ sleep = NoSleep
    /\ redirects = <<>>
    /\ NoTruncate

\* main leaves by `return Ok(())`, by the end of the match or by a panic.
\* In the Monitor command that is inside the body of the loop, and the
\* receiver is dropped.
LeaveMain(how) ==
    /\ main' = how
    /\ IF command = "Monitor" THEN EventAborts ELSE UNCHANGED session_vars

----------------------------------------------------------------------------
(* The receive task, as the Monitor loop sees it.                          *)

\* The uid of the k-th notification of a run: each is of another channel.
EventUid(k) == BroadcasterId(k)

\* tx.send(uid).await completes: the id is in the channel.
TxSend ==
    /\ MainRunning
    /\ receive = "select"
    /\ Len(delivered) < MaxEvents
    /\ Len(channel) < ChannelCapacity
    /\ channel' = Append(channel, EventUid(Len(delivered) + 1))
    /\ delivered' = Append(delivered, EventUid(Len(delivered) + 1))
    /\ notified' = Append(notified, EventUid(Len(delivered) + 1))
    /\ UNCHANGED <<broadcaster_ids, sleep, session_id, notify, registration,
                   posts, connection_url, receive, connected_to, connects,
                   stream, frames_sent, monitor, panic_message,
                   text_messages, assigned, handled, timeouts, redirects>>
    /\ UNCHANGED <<vars, util_vars, main_vars>>

\* The receive task ends, by the break or by a panic: tx is dropped.
ReceiveTaskEnds ==
    /\ MainRunning
    /\ receive = "select"
    /\ receive' = "ended"
    /\ UNCHANGED <<broadcaster_ids, sleep, session_id, notify, registration,
                   posts, connection_url, connected_to, connects, stream,
                   frames_sent, channel, monitor, panic_message,
                   text_messages, assigned, handled, notified, delivered,
                   timeouts, redirects>>
    /\ UNCHANGED <<vars, util_vars, main_vars>>

----------------------------------------------------------------------------
(* The access-token task.                                                  *)

\* generate_access_token() returns Ok: send_replace(Some(access_token)).
WatcherPublishes ==
    /\ MainRunning
    /\ watcher = "generate"
    /\ access_token' = "Some"
    /\ watcher' = "sleep"
    /\ UNCHANGED <<command, main, received, jobs, returns, admitted>>
    /\ UNCHANGED <<vars, session_vars, util_vars>>

\* generate_access_token() returns Err: ct.cancel(), then panic!.
WatcherFails ==
    /\ MainRunning
    /\ watcher = "generate"
    /\ Cancel \/ CancelAgain
    /\ watcher' = "panicked"
    /\ UNCHANGED <<command, main, access_token, received, jobs, returns,
                   admitted>>
    /\ UNCHANGED <<session_vars, util_vars>>

\* select!: sleep(3540 s) is over, the loop asks for the next token.
WatcherRenews ==
    /\ MainRunning
    /\ watcher = "sleep"
    /\ watcher' = "generate"
    /\ UNCHANGED <<command, main, access_token, received, jobs, returns,
                   admitted>>
    /\ UNCHANGED <<vars, session_vars, util_vars>>

\* select!: ct.cancelled() wins, the task breaks out of the loop.
WatcherObservesCancel ==
    /\ MainRunning
    /\ watcher = "sleep"
    /\ ct
    /\ watcher' = "ended"
    /\ UNCHANGED <<command, main, access_token, received, jobs, returns,
                   admitted>>
    /\ UNCHANGED <<vars, session_vars, util_vars>>

----------------------------------------------------------------------------
(* main.                                                                   *)

\* The CTRL+C watcher calls ct.cancel() while main runs.
CtrlC ==
    /\ MainRunning
    /\ Cancel \/ CancelAgain
    /\ UNCHANGED <<session_vars, util_vars, main_vars>>

\* receiver.recv() returns Some(uid): the body of the loop starts.
MonitorRecv ==
    /\ main = "loop"
    /\ Recv
    /\ received' = Append(received, Head(channel))
    /\ main' = "list"
    /\ UNCHANGED <<command, access_token, watcher, jobs, returns, admitted>>
    /\ UNCHANGED <<vars, util_vars>>

\* receiver.recv() returns None: the loop ends and main returns Ok.
MonitorRecvNone ==
    /\ main = "loop"
    /\ RecvNone
    /\ main' = "returned"
    /\ UNCHANGED <<command, access_token, watcher, received, jobs, returns,
                   admitted>>
    /\ UNCHANGED <<vars, util_vars>>

\* What comes before the tasks of download() fails: list_channel_videos
\* or vids.first() in the Monitor loop, the video info of the two other
\* commands, get_vod_tokens, the playlists or create_dir in download().
\* main panics, by its own unwrap() or by the one on download()'s Err.
LookupFails ==
    /\ main \in {"start", "list"}
    /\ LeaveMain("panicked")
    /\ UNCHANGED <<command, access_token, watcher, received, jobs, returns,
                   admitted>>
    /\ UNCHANGED <<vars, util_vars>>

\* main calls download() for the vod of the command line or for the
\* latest vod of the uid it received: download() gets the playlist of n
\* segments and builds a Semaphore of `parallelism` permits, an empty
\* JoinSet and an empty Vec.
StartDownload(n) ==
    /\ main \in {"start", "list"}
    /\ segments' = MediaSegments(n)
    /\ dl' = IF n = 0 THEN "join_all" ELSE "loop"
    /\ segment_file_names' = <<>>
    /\ task' = [i \in 1..n |-> "unspawned"]
    /\ download_parallelism' = parallelism
    /\ file' = [i \in 1..n |-> "none"]
    /\ status' = [i \in 1..n |-> "none"]
    /\ attempts' = [i \in 1..n |-> 0]
    /\ completed' = <<>>
    /\ joined' = 0
    /\ concat_input' = <<>>
    /\ in_flight_at_cancel' = {}
    /\ jobs' = Append(jobs, CurrentUid)
    /\ main' = "download"
    /\ UNCHANGED <<parallelism, ct>>
    /\ UNCHANGED <<command, access_token, watcher, received, returns,
                   admitted>>
    /\ UNCHANGED <<session_vars, util_vars>>

\* download() returned Err or unwound: main panics, on its unwrap() or by
\* the panic itself.
DownloadUnwrapPanics ==
    /\ main = "download"
    /\ dl \in {"err", "panic"}
    /\ LeaveMain("panicked")
    /\ UNCHANGED <<command, access_token, watcher, received, jobs, returns,
                   admitted>>
    /\ UNCHANGED <<vars, util_vars>>

\* DownloadReturnsCancelled as it would be without the is_cancelled()
\* check: main goes on with the file.
DownloadReturnsCancelledGoesOn ==
    /\ main = "download"
    /\ dl = "ok"
    /\ ct
    /\ returns' = Append(returns, TRUE)
    /\ main' = IF command = "Download" THEN "rename" ELSE "token"
    /\ UNCHANGED <<command, access_token, watcher, received, jobs, admitted>>
    /\ UNCHANGED <<vars, session_vars, util_vars>>

\* download() returned Ok and ct.is_cancelled(): main returns Ok(()).
DownloadReturnsCancelled ==
    /\ main = "download"
    /\ dl = "ok"
    /\ ct
    /\ returns' = Append(returns, TRUE)
    /\ LeaveMain("returned")
    /\ UNCHANGED <<command, access_token, watcher, received, jobs, admitted>>
    /\ UNCHANGED <<vars, util_vars>>

\* DownloadReturns as it would be if main did not await download() but
\* went on as soon as the tasks were spawned.
DownloadReturnsBeforeJoin ==
    /\ main = "download"
    /\ dl \in {"join_all", "ok"}
    /\ ~ct
    /\ returns' = Append(returns, FALSE)
    /\ main' = IF command = "Download" THEN "rename" ELSE "token"
    /\ UNCHANGED <<command, access_token, watcher, received, jobs, admitted>>
    /\ UNCHANGED <<vars, session_vars, util_vars>>

\* download() returned Ok and ct is not cancelled: main goes on to the
\* rename (Download) or to the access token (Archive, Monitor).
DownloadReturns ==
    /\ main = "download"
    /\ dl = "ok"
    /\ ~ct
    /\ returns' = Append(returns, FALSE)
    /\ main' = IF command = "Download" THEN "rename" ELSE "token"
    /\ UNCHANGED <<command, access_token, watcher, received, jobs, admitted>>
    /\ UNCHANGED <<vars, session_vars, util_vars>>

\* tokio::fs::rename(&file, path), then the cleanup: main returns Ok, or
\* panics if one of them fails.
Rename ==
    /\ main = "rename"
    /\ admitted' = Append(admitted, [step |-> "rename", job |-> Len(jobs)])
    /\ \E how \in MainOver : LeaveMain(how)
    /\ UNCHANGED <<command, access_token, watcher, received, jobs, returns>>
    /\ UNCHANGED <<vars, util_vars>>

\* access_token.borrow().clone().unwrap() on None: main panics.
ReadTokenPanics ==
    /\ main = "token"
    /\ access_token = "None"
    /\ LeaveMain("panicked")
    /\ UNCHANGED <<command, access_token, watcher, received, jobs, returns,
                   admitted>>
    /\ UNCHANGED <<vars, util_vars>>

\* access_token.borrow().clone().unwrap() on Some: main calls archive().
ReadToken ==
    /\ main = "token"
    /\ access_token = "Some"
    /\ admitted' = Append(admitted, [step |-> "archive", job |-> Len(jobs)])
    /\ main' = "archive"
    /\ UNCHANGED <<command, access_token, watcher, received, jobs, returns>>
    /\ UNCHANGED <<vars, session_vars, util_vars>>

\* archive() returned Ok and the cleanup is done: the Archive command
\* returns, the Monitor loop goes back to recv().
ArchiveDone ==
    /\ main = "archive"
    /\ IF command = "Monitor"
         THEN /\ EventDone
              /\ main' = "loop"
         ELSE /\ UNCHANGED session_vars
              /\ main' = "returned"
    /\ UNCHANGED <<command, access_token, watcher, received, jobs, returns,
                   admitted>>
    /\ UNCHANGED <<vars, util_vars>>

\* archive() returned Err or the cleanup failed: unwrap() panics.
ArchiveFails ==
    /\ main = "archive"
    /\ LeaveMain("panicked")
    /\ UNCHANGED <<command, access_token, watcher, received, jobs, returns,
                   admitted>>
    /\ UNCHANGED <<vars, util_vars>>

\* A step of the download() main awaits.
JobStep(A) ==
    /\ main = "download"
    /\ A
    /\ UNCHANGED <<session_vars, util_vars, main_vars>>

MainNext ==
    \/ CtrlC
    \/ TxSend
    \/ ReceiveTaskEnds
    \/ WatcherPublishes
    \/ WatcherFails
    \/ WatcherRenews
    \/ WatcherObservesCancel
    \/ MonitorRecv
    \/ MonitorRecvNone
    \/ LookupFails
    \/ \E n \in 0..MaxJobSegments : StartDownload(n)
    \/ JobStep(Spawn)
    \/ JobStep(SpawnUrlError)
    \/ JobStep(\E i \in Indices : AcquirePermit(i))
    \/ JobStep(\E i \in Indices : ObserveCancel(i))
    \/ JobStep(\E i \in Indices : SendFails(i))
    \/ JobStep(\E i \in Indices, st \in StatusClasses : ReceiveResponse(i, st))
    \/ JobStep(\E i \in Indices : CreateFails(i))
    \/ JobStep(\E i \in Indices : StreamFails(i))
    \/ JobStep(\E i \in Indices : FinishTask(i))
    \/ JobStep(JoinNextOk)
    \/ JobStep(JoinNextPanic)
    \/ JobStep(InvokeConcat)
    \/ JobStep(ConcatSucceeds)
    \/ JobStep(ConcatFails)
    \/ DownloadUnwrapPanics
    \/ DownloadReturnsCancelled
    \/ DownloadReturns
    \/ Rename
    \/ ReadTokenPanics
    \/ ReadToken
    \/ ArchiveDone
    \/ ArchiveFails

\* A run of one command.
MainSpec == MainInit /\ [][MainNext]_all_vars

MainTypeOK ==
    /\ command \in Commands
    /\ main \in {"start", "loop", "list", "download", "rename", "token",
                 "archive", "returned", "panicked"}
    /\ access_token \in {"None", "Some"}
    /\ watcher \in {"none", "generate", "sleep", "ended", "panicked"}
    /\ command = "Download" <=> watcher = "none"
    /\ command = "Monitor" <=> monitor # "none"
    /\ monitor = "recv" <=> main = "loop"
    /\ monitor = "gone" <=> (command = "Monitor" /\ main \in MainOver)
    /\ Len(jobs) <= MaxEvents + 1
    /\ Len(channel) <= ChannelCapacity
    /\ TypeOK

\* A step of main or of a task of the download() it awaits.
MainStep ==
    \/ MonitorRecv
    \/ MonitorRecvNone
    \/ LookupFails
    \/ \E n \in 0..MaxJobSegments : StartDownload(n)
    \/ JobStep(DownloadStep)
    \/ DownloadUnwrapPanics
    \/ DownloadReturnsCancelled
    \/ DownloadReturns
    \/ Rename
    \/ ReadTokenPanics
    \/ ReadToken
    \/ ArchiveDone
    \/ ArchiveFails

\* The runtime polls main and the tasks that can go on, every request and
\* transfer that was started comes to an end, ffmpeg exits and archive()
\* returns.  Nothing makes the user cancel, the receive task send or end,
\* or the token endpoint answer.
FairMainSpec == MainSpec /\ WF_all_vars(MainStep)

----------------------------------------------------------------------------
(* Properties of main.                                                     *)

\* main is in the body of the Monitor loop, past the call of download().
PastDownloadCall == main \in {"download", "token", "archive"}

\* C31: in the Monitor command every uid the loop receives gets one call
\* of download(), for that uid, before the next is received; a job starts
\* only when no task of the one before is waiting or in flight, and the
\* transfers in flight are never more than `parallelism`.
C31_OneJobPerEventOneAtATime ==
    /\ [](command = "Monitor" =>
            /\ Len(jobs) <= Len(received)
            /\ Len(received) <= Len(jobs) + 1
            /\ jobs = SubSeq(received, 1, Len(jobs))
            /\ (main = "loop" \/ PastDownloadCall) => jobs = received
            /\ main = "list" => Len(received) = Len(jobs) + 1
            /\ Cardinality(Holders) <= parallelism)
    /\ [][(command = "Monitor" /\ Len(jobs') > Len(jobs)) =>
            /\ Len(jobs') = Len(jobs) + 1
            /\ \A i \in Indices : task[i] \in Terminal
            /\ Holders = {}
            /\ dl \in {"none", "ok"}]_all_vars

\* The second event's job has a transfer in flight.
C31_Witness ==
    /\ command = "Monitor"
    /\ received = <<EventUid(1), EventUid(2)>>
    /\ jobs = received
    /\ main = "download"
    /\ Holders # {}

\* C32: no step is taken with the file of a download() that returned with
\* ct cancelled: neither the rename of the Download command nor the
\* archive() of the two others; main returns instead.
C32_NothingAdmittedAfterCancel ==
    /\ \A k \in 1..Len(admitted) :
        /\ admitted[k].job <= Len(returns)
        /\ ~returns[admitted[k].job]
    /\ (returns # <<>> /\ returns[Len(returns)]) =>
        /\ main = "returned"
        /\ \A k \in 1..Len(admitted) : admitted[k].job < Len(returns)

\* The second download of a Monitor run returned Ok after cancel(); the
\* first was archived.
C32_Witness ==
    /\ command = "Monitor"
    /\ returns = <<FALSE, TRUE>>
    /\ admitted = <<[step |-> "archive", job |-> 1]>>
    /\ main = "returned"

\* C35: when main reads the access token, the access-token task has
\* published one.
C35_TokenPublishedBeforeRead == main = "token" => access_token # "None"

\* C36: once the receive task is over, the Monitor loop comes to its end.
C36_MonitorLoopEndsAfterReceiveTask ==
    (command = "Monitor" /\ receive \in Over) ~> (main \in MainOver)

====
